---------------------------- MODULE Spec2Model ----------------------------
(***************************************************************************)
(* A model of qfx-convert: the QFXConverter class (converter.py) and the   *)
(* command line driver main() (cli.py).                                    *)
(*                                                                         *)
(* Python values are modelled as tagged tuples:                            *)
(*   <<"none">>                 None                                       *)
(*   <<"str", s>>               a str                                      *)
(*   <<"int", n>>, <<"bool", b>>, <<"float", n>>   primitive scalars       *)
(*   <<"Decimal", n>>           decimal.Decimal, a finite amount           *)
(*   <<"Decimal", 0, "sNaN">>   decimal.Decimal('sNaN'), a signalling NaN  *)
(*   <<"datetime", y, mo, d, h, mi, s>>   datetime.datetime                *)
(*   <<"date", y, mo, d>>       datetime.date (not a datetime)             *)
(*   <<"time", h, mi, s>>       datetime.time                              *)
(*   <<"obj", uid, uidtype>>    an object with a __dict__; uid / uidtype   *)
(*                              are the values of its uniqueid /           *)
(*                              uniqueidtype attributes, or Absent         *)
(*   <<"opaque">>               any other object (no __dict__)             *)
(*   <<"callable">>             a bound method or other callable           *)
(* Absent marks an attribute the object does not have at all.              *)
(***************************************************************************)
EXTENDS Integers, Sequences, FiniteSets, TLC

VARIABLES
    mode,            \* which entry point drives this behaviour
    obj,             \* a transaction or position object handed to the flattener
    account,         \* the statement.account object the context is read from
    doc,             \* a parsed document (ofx_data) handed to the aggregator
    record_seq,         \* a record sequence handed to the CSV writer
    out,             \* the value the operation under study returned
    op,              \* the operation that produced out ("none" before any)
    fs0,             \* the file system when the program started
    fs,              \* the file system: path -> absent, directory or file
    args,            \* the parsed command line (argparse.Namespace)
    pc,              \* where main() or the calling program stands
    idx,             \* main(): position of the for loop in args.input_files
    success_count,   \* main(): success_count
    error_count,     \* main(): error_count
    exit_code,       \* main(): the value returned, -1 while running
    conv,            \* the QFXConverter object of the calling program
    calls            \* what each file of main(), or each call made by the
                     \* calling program, did: its result and what it wrote

pure == <<mode, obj, account, doc, record_seq, out, op>>
prog == <<fs0, fs, args, pc, idx, success_count, error_count, exit_code, conv, calls>>
vars == <<mode, obj, account, doc, record_seq, out, op,
          fs0, fs, args, pc, idx, success_count, error_count, exit_code, conv, calls>>

----------------------------------------------------------------------------
\* Python values

None == <<"none">>
Absent == <<"absent">>
Str(s) == <<"str", s>>

Pad2(n) == IF n < 10 THEN "0" \o ToString(n) ELSE ToString(n)

\* datetime.isoformat() of a naive datetime without microseconds
IsoFormat(dt) ==
    ToString(dt[2]) \o "-" \o Pad2(dt[3]) \o "-" \o Pad2(dt[4]) \o "T"
        \o Pad2(dt[5]) \o ":" \o Pad2(dt[6]) \o ":" \o Pad2(dt[7])

\* decimal.Decimal('sNaN')
SNaN == <<"Decimal", 0, "sNaN">>

\* What float() raises for a signalling NaN: a ValueError with this message.
FloatError == <<"raise", "cannot convert signaling NaN to float">>

\* float(Decimal): the nearest binary float of a finite amount; a signalling
\* NaN has no float and raises.
ToFloat(dec) == IF dec = SNaN THEN FloatError ELSE <<"float", dec[2]>>

\* An exception that left a loop, carried in place of the dict being built.
Failure(x) == [k \in {"!raise"} |-> x]
IsFailure(d) == "!raise" \in DOMAIN d

\* An exception that left a loop, carried in place of the list being built.
Raised(records) == Len(records) = 1 /\ IsFailure(records[1])

IsPrimitive(v) == v[1] \in {"str", "int", "float", "bool"}

\* hasattr(value, '__dict__')
HasDict(v) == v[1] = "obj"

\* f'{attr_name}_uniqueid', f'{attr_name}_uniqueidtype'
UniqueIdKey(attr_name) == attr_name \o "_uniqueid"
UniqueIdTypeKey(attr_name) == attr_name \o "_uniqueidtype"

\* d[k] = v on a dict
Put(d, k, v) == [x \in (DOMAIN d) \cup {k} |-> IF x = k THEN v ELSE d[x]]

\* d.update(e)
Update(d, e) == [x \in (DOMAIN d) \cup (DOMAIN e) |-> IF x \in DOMAIN e THEN e[x] ELSE d[x]]

EmptyDict == [x \in {} |-> None]

----------------------------------------------------------------------------
\* Attribute reflection

\* The attribute names an object may expose, in the order dir() lists them
\* (sorted by code point: "_" sorts before the lower-case letters).
DirOrder == <<"_raw", "account_id", "dtposted", "fitid", "secid">>

AttrNames == {DirOrder[i] : i \in 1..Len(DirOrder)}

\* attr_name.startswith('_')
IsPrivate(attr_name) == attr_name \in {"_raw"}

\* getattr(o, name, default)
GetAttr(o, name, default) == IF o[name] = Absent THEN default ELSE o[name]

----------------------------------------------------------------------------
\* Record Flattener

\* A variant that never overwrites a key the record already holds.
TrxAttrStepKeepExisting(trx_dict, trx, attr_name) ==
    LET attr_value == trx[attr_name] IN
    IF attr_value = Absent THEN trx_dict
    ELSE IF IsPrivate(attr_name) \/ attr_value[1] = "callable" THEN trx_dict
    ELSE IF attr_value = None THEN trx_dict
    ELSE IF attr_name \in DOMAIN trx_dict THEN trx_dict
    ELSE IF attr_value[1] = "datetime" THEN Put(trx_dict, attr_name, Str(IsoFormat(attr_value)))
    ELSE IF attr_value[1] = "Decimal" THEN
        LET x == ToFloat(attr_value) IN
        IF x[1] = "raise" THEN Failure(x) ELSE Put(trx_dict, attr_name, x)
    ELSE IF IsPrimitive(attr_value) THEN Put(trx_dict, attr_name, attr_value)
    ELSE IF HasDict(attr_value) THEN
        LET d1 == IF attr_value[2] # Absent
                  THEN Put(trx_dict, UniqueIdKey(attr_name), attr_value[2])
                  ELSE trx_dict
        IN IF attr_value[3] # Absent
           THEN Put(d1, UniqueIdTypeKey(attr_name), attr_value[3])
           ELSE d1
    ELSE trx_dict

\* One pass of the loop body of _transaction_to_dict for attr_name.
TrxAttrStep(trx_dict, trx, attr_name) ==
    LET attr_value == trx[attr_name] IN
    IF attr_value = Absent THEN trx_dict
    ELSE IF IsPrivate(attr_name) \/ attr_value[1] = "callable" THEN trx_dict
    ELSE IF attr_value = None THEN trx_dict
    ELSE IF attr_value[1] = "datetime" THEN Put(trx_dict, attr_name, Str(IsoFormat(attr_value)))
    ELSE IF attr_value[1] = "Decimal" THEN
        LET x == ToFloat(attr_value) IN
        IF x[1] = "raise" THEN Failure(x) ELSE Put(trx_dict, attr_name, x)
    ELSE IF IsPrimitive(attr_value) THEN Put(trx_dict, attr_name, attr_value)
    ELSE IF HasDict(attr_value) THEN
        LET d1 == IF attr_value[2] # Absent
                  THEN Put(trx_dict, UniqueIdKey(attr_name), attr_value[2])
                  ELSE trx_dict
        IN IF attr_value[3] # Absent
           THEN Put(d1, UniqueIdTypeKey(attr_name), attr_value[3])
           ELSE d1
    ELSE trx_dict

RECURSIVE TrxLoop(_, _, _)
\* for attr_name in dir(trx), from position i on
TrxLoop(trx_dict, trx, i) ==
    IF i > Len(DirOrder) \/ IsFailure(trx_dict) THEN trx_dict
    ELSE TrxLoop(TrxAttrStep(trx_dict, trx, DirOrder[i]), trx, i + 1)

\* QFXConverter._transaction_to_dict
TransactionToDict(trx, account_info) ==
    TrxLoop(Update(EmptyDict, account_info), trx, 1)

\* One pass of the loop body of _position_to_dict for attr_name.
PosAttrStep(pos_dict, pos, attr_name) ==
    LET attr_value == pos[attr_name] IN
    IF attr_value = Absent THEN pos_dict
    ELSE IF IsPrivate(attr_name) \/ attr_value[1] = "callable" THEN pos_dict
    ELSE IF attr_value = None THEN pos_dict
    ELSE IF attr_value[1] = "datetime" THEN Put(pos_dict, attr_name, Str(IsoFormat(attr_value)))
    ELSE IF attr_value[1] = "Decimal" THEN
        LET x == ToFloat(attr_value) IN
        IF x[1] = "raise" THEN Failure(x) ELSE Put(pos_dict, attr_name, x)
    ELSE IF IsPrimitive(attr_value) THEN Put(pos_dict, attr_name, attr_value)
    ELSE IF HasDict(attr_value) THEN
        LET d1 == IF attr_value[2] # Absent
                  THEN Put(pos_dict, UniqueIdKey(attr_name), attr_value[2])
                  ELSE pos_dict
        IN IF attr_value[3] # Absent
           THEN Put(d1, UniqueIdTypeKey(attr_name), attr_value[3])
           ELSE d1
    ELSE pos_dict

RECURSIVE PosLoop(_, _, _)
\* for attr_name in dir(pos), from position i on
PosLoop(pos_dict, pos, i) ==
    IF i > Len(DirOrder) \/ IsFailure(pos_dict) THEN pos_dict
    ELSE PosLoop(PosAttrStep(pos_dict, pos, DirOrder[i]), pos, i + 1)

\* QFXConverter._position_to_dict
PositionToDict(pos, account_info) ==
    PosLoop(Update(EmptyDict, account_info), pos, 1)

----------------------------------------------------------------------------
\* Statement Aggregator: the account context

\* account_info of _extract_transactions
TrxAccountInfo(acct) ==
    [k \in {"account_id", "account_type", "bank_id"} |->
        CASE k = "account_id" -> GetAttr(acct, "acctid", Str(""))
          [] k = "account_type" -> GetAttr(acct, "accttype", Str(""))
          [] k = "bank_id" -> GetAttr(acct, "bankid", GetAttr(acct, "brokerid", Str("")))]

\* account_info of _extract_positions
PosAccountInfo(acct) ==
    [k \in {"account_id", "broker_id"} |->
        CASE k = "account_id" -> GetAttr(acct, "acctid", Str(""))
          [] k = "broker_id" -> GetAttr(acct, "brokerid", Str(""))]

----------------------------------------------------------------------------
\* Inputs of the flattener

AttrObjects ==
    {<<"obj", u, t>> : u \in {Absent, None, Str("U1")}, t \in {Absent, None, Str("CUSIP")}}

AttrValues ==
    {None, Str(""), Str("x"), <<"int", 7>>, <<"bool", TRUE>>, <<"Decimal", 2317>>,
     <<"datetime", 2024, 1, 15, 9, 5, 0>>, <<"opaque">>, <<"callable">>}
        \cup AttrObjects

\* The values of a date attribute: a datetime at midnight of the last day of
\* a year, a date without a time, and a time without a date.
DateValues ==
    {<<"datetime", 2023, 12, 31, 0, 0, 0>>, <<"date", 2024, 1, 15>>, <<"time", 9, 5, 0>>}

\* Transaction / position objects: every attribute is absent or holds a value.
Objects ==
    {o \in [AttrNames -> AttrValues \cup DateValues \cup {SNaN, Absent}] :
        /\ o["_raw"] \in {Absent, Str("x")}
        /\ o["account_id"] \in AttrValues \cup {SNaN, Absent}
        /\ o["dtposted"] \in DateValues \cup {Absent}
        /\ o["fitid"] \in {Absent, None, Str("x")}
        /\ o["secid"] \in AttrValues \cup {Absent}}

AccountAttrs == {"acctid", "accttype", "bankid", "brokerid"}

Accounts ==
    {a \in [AccountAttrs -> {Absent, None, Str("A1"), Str("B1"), Str("K1"), Str("CHECKING")}] :
        /\ a["acctid"] \in {Absent, None, Str("A1")}
        /\ a["accttype"] \in {Absent, Str("CHECKING")}
        /\ a["bankid"] \in {Absent, None, Str("B1")}
        /\ a["brokerid"] \in {Absent, Str("K1")}}

NoObject == [n \in AttrNames |-> Absent]
NoAccount == [n \in AccountAttrs |-> Absent]
NoDoc == <<>>

\* The program itself is not running while a single operation is studied.
ProgIdle ==
    /\ fs0 = <<>>
    /\ fs = <<>>
    /\ args = <<>>
    /\ pc = "none"
    /\ idx = 0
    /\ success_count = 0
    /\ error_count = 0
    /\ exit_code = -1
    /\ conv = <<>>
    /\ calls = <<>>

----------------------------------------------------------------------------
\* Specification of the flattener alone: one object and one account are
\* drawn, then flattened as a transaction or as a position.

InitFlat ==
    /\ mode = "flat"
    /\ obj \in Objects
    /\ account \in Accounts
    /\ doc = NoDoc
    /\ record_seq = <<>>
    /\ out = EmptyDict
    /\ op = "none"
    /\ ProgIdle

FlattenTransaction ==
    /\ mode = "flat"
    /\ op = "none"
    /\ out' = TransactionToDict(obj, TrxAccountInfo(account))
    /\ op' = "transaction"
    /\ UNCHANGED <<mode, obj, account, doc, record_seq, prog>>

FlattenPosition ==
    /\ mode = "flat"
    /\ op = "none"
    /\ out' = PositionToDict(obj, PosAccountInfo(account))
    /\ op' = "position"
    /\ UNCHANGED <<mode, obj, account, doc, record_seq, prog>>

NextFlat == FlattenTransaction \/ FlattenPosition

SpecFlat == InitFlat /\ [][NextFlat]_vars

----------------------------------------------------------------------------
\* Statement Aggregator

MaxStatements == 2
MaxTrx == 2

\* All sequences over S of length at most n.
SeqsUpTo(S, n) == UNION {[1..k -> S] : k \in 0..n}

RECURSIVE StmtTrxLoop(_, _, _, _)
\* for trx in stmt_transactions, from position j on
StmtTrxLoop(transactions, stmt_transactions, account_info, j) ==
    IF j > Len(stmt_transactions) \/ Raised(transactions) THEN transactions
    ELSE LET trx_dict == TransactionToDict(stmt_transactions[j], account_info) IN
         StmtTrxLoop(IF IsFailure(trx_dict) THEN <<trx_dict>>
                     ELSE Append(transactions, trx_dict),
                     stmt_transactions, account_info, j + 1)

RECURSIVE ExtractTrxLoopStopAtEmpty(_, _, _)
\* A variant whose walk ends at the first statement without transactions.
ExtractTrxLoopStopAtEmpty(transactions, statements, s) ==
    IF s > Len(statements) \/ Raised(transactions) THEN transactions
    ELSE LET statement == statements[s]
             account_info == TrxAccountInfo(statement.account)
             stmt_transactions == statement.transactions
         IN IF stmt_transactions # <<>>
            THEN ExtractTrxLoopStopAtEmpty(
                     StmtTrxLoop(transactions, stmt_transactions, account_info, 1),
                     statements, s + 1)
            ELSE transactions

RECURSIVE ExtractTrxLoop(_, _, _)
\* for statement in statements, from position s on
ExtractTrxLoop(transactions, statements, s) ==
    IF s > Len(statements) \/ Raised(transactions) THEN transactions
    ELSE LET statement == statements[s]
             account_info == TrxAccountInfo(statement.account)
             stmt_transactions == statement.transactions
         IN IF stmt_transactions # <<>>
            THEN ExtractTrxLoop(
                     StmtTrxLoop(transactions, stmt_transactions, account_info, 1),
                     statements, s + 1)
            ELSE ExtractTrxLoop(transactions, statements, s + 1)

\* QFXConverter._extract_transactions on parsed data
ExtractTransactions(ofx_data) == ExtractTrxLoop(<<>>, ofx_data, 1)

RECURSIVE StmtPosLoop(_, _, _, _)
\* for pos in statement.positions, from position j on
StmtPosLoop(positions, stmt_positions, account_info, j) ==
    IF j > Len(stmt_positions) \/ Raised(positions) THEN positions
    ELSE LET pos_dict == PositionToDict(stmt_positions[j], account_info) IN
         StmtPosLoop(IF IsFailure(pos_dict) THEN <<pos_dict>>
                     ELSE Append(positions, pos_dict),
                     stmt_positions, account_info, j + 1)

RECURSIVE ExtractPosLoop(_, _, _)
\* for statement in statements, from position s on
ExtractPosLoop(positions, statements, s) ==
    IF s > Len(statements) \/ Raised(positions) THEN positions
    ELSE LET statement == statements[s] IN
         IF statement.has_positions = "absent" \/ statement.has_positions = "none"
         THEN ExtractPosLoop(positions, statements, s + 1)
         ELSE ExtractPosLoop(
                  StmtPosLoop(positions, statement.positions,
                              PosAccountInfo(statement.account), 1),
                  statements, s + 1)

\* QFXConverter._extract_positions on parsed data
ExtractPositions(ofx_data) == ExtractPosLoop(<<>>, ofx_data, 1)

----------------------------------------------------------------------------
\* Parsed documents

\* A bank transaction, and an investment transaction with a security id and
\* an attribute named like an account-context key.
BankTrx ==
    [NoObject EXCEPT !["fitid"] = Str("x")]
InvTrx ==
    [NoObject EXCEPT !["secid"] = <<"obj", Str("U1"), Str("CUSIP")>>,
                     !["account_id"] = <<"Decimal", 2317>>]
TrxPool == {BankTrx, InvTrx}

\* A position with a security id whose type is not set.
SecPos ==
    [NoObject EXCEPT !["secid"] = <<"obj", Str("U1"), None>>,
                     !["fitid"] = Str("x")]

\* A position whose market value is a signalling NaN.
NanPos ==
    [NoObject EXCEPT !["secid"] = <<"obj", Str("U1"), None>>,
                     !["account_id"] = SNaN]

BankAccount ==
    [NoAccount EXCEPT !["acctid"] = Str("A1"), !["accttype"] = Str("CHECKING"),
                      !["bankid"] = Str("B1")]
InvAccount ==
    [NoAccount EXCEPT !["acctid"] = Str("A1"), !["brokerid"] = Str("K1")]

\* A bank statement has no positions attribute; an investment statement has
\* one, which may be None, empty or hold positions.
\* has_positions tells whether statement.positions is missing ("absent"), is
\* None ("none") or is the list held in positions ("list").
Statements ==
    {[account |-> a, transactions |-> t, has_positions |-> "absent", positions |-> <<>>] :
        a \in {BankAccount}, t \in SeqsUpTo(TrxPool, MaxTrx)}
    \cup
    {[account |-> InvAccount, transactions |-> t, has_positions |-> h[1], positions |-> h[2]] :
        t \in SeqsUpTo(TrxPool, MaxTrx),
        h \in {<<"none", <<>>>>, <<"list", <<>>>>, <<"list", <<SecPos>>>>}}

Docs == SeqsUpTo(Statements, MaxStatements)

----------------------------------------------------------------------------
\* Specification of the aggregator alone: one parsed document is drawn and
\* each extraction runs on it.

InitExtract ==
    /\ mode = "extract"
    /\ obj = NoObject
    /\ account = NoAccount
    /\ doc \in Docs
    /\ record_seq = <<>>
    /\ out = <<>>
    /\ op = "none"
    /\ ProgIdle

RunExtractTransactions ==
    /\ mode = "extract"
    /\ op = "none"
    /\ out' = ExtractTransactions(doc)
    /\ op' = "extract_transactions"
    /\ UNCHANGED <<mode, obj, account, doc, record_seq, prog>>

RunExtractPositions ==
    /\ mode = "extract"
    /\ op = "none"
    /\ out' = ExtractPositions(doc)
    /\ op' = "extract_positions"
    /\ UNCHANGED <<mode, obj, account, doc, record_seq, prog>>

NextExtract == RunExtractTransactions \/ RunExtractPositions

SpecExtract == InitExtract /\ [][NextExtract]_vars

----------------------------------------------------------------------------
\* Serialization Adapter: CSV

\* Every key a record can hold, in the order sorted() puts them.
KeyOrder ==
    <<"account_id", "account_id_uniqueid", "account_id_uniqueidtype",
      "account_type", "bank_id", "broker_id", "dtposted",
      "fitid", "fitid_uniqueid", "fitid_uniqueidtype",
      "secid", "secid_uniqueid", "secid_uniqueidtype">>

RECURSIVE KeysOf(_, _)
\* fieldnames.update(rec.keys()) for the records from position i on
KeysOf(records, i) ==
    IF i > Len(records) THEN {}
    ELSE (DOMAIN records[i]) \cup KeysOf(records, i + 1)

\* sorted(fieldnames)
Sorted(fieldnames) == SelectSeq(KeyOrder, LAMBDA k : k \in fieldnames)

\* A variant that takes the header from the first record alone.
FieldNamesFirstOnly(records) == Sorted(DOMAIN records[1])

\* fieldnames of to_csv: the sorted union of the records' keys
FieldNames(records) == Sorted(KeysOf(records, 1))

\* The text csv.writer puts in a cell: None becomes the empty text, a str is
\* written as it is, any other value through str().
CsvCell(v) ==
    IF v = None THEN <<"text", "">>
    ELSE IF v[1] = "str" THEN <<"text", v[2]>>
    ELSE <<"repr", v>>

EmptyCell == <<"text", "">>

\* DictWriter row of one record: restval '' for a field the record lacks;
\* extrasaction='ignore' drops keys outside fieldnames.
CsvRow(rec, fieldnames) ==
    [i \in 1..Len(fieldnames) |->
        IF fieldnames[i] \in DOMAIN rec THEN CsvCell(rec[fieldnames[i]]) ELSE EmptyCell]

\* writer.writeheader(); writer.writerows(records)
CsvContent(records) ==
    LET fieldnames == FieldNames(records) IN
    [header |-> fieldnames,
     rows |-> [i \in 1..Len(records) |-> CsvRow(records[i], fieldnames)]]

----------------------------------------------------------------------------
\* Specification of the CSV writer alone: a non-empty sequence of transaction
\* records, or of position records, is drawn and written.

MaxRecords == 3

\* A position without a security id.
CashPos ==
    [NoObject EXCEPT !["fitid"] = <<"int", 7>>]

\* The records of the sample transactions under a bank and an investment
\* account, and of the sample positions.
TrxRecords ==
    {TransactionToDict(t, TrxAccountInfo(a)) : t \in TrxPool, a \in {BankAccount, InvAccount}}
PosRecords ==
    {PositionToDict(p, PosAccountInfo(InvAccount)) : p \in {SecPos, CashPos}}

InitCsv ==
    /\ mode = "csv"
    /\ obj = NoObject
    /\ account = NoAccount
    /\ doc = NoDoc
    /\ record_seq \in (SeqsUpTo(TrxRecords, MaxRecords) \cup SeqsUpTo(PosRecords, MaxRecords))
                        \ {<<>>}
    /\ out = <<>>
    /\ op = "none"
    /\ ProgIdle

\* the transactions file of to_csv
WriteTransactionsCsv ==
    /\ mode = "csv"
    /\ op = "none"
    /\ \A i \in 1..Len(record_seq) : record_seq[i] \in TrxRecords
    /\ out' = CsvContent(record_seq)
    /\ op' = "csv_transactions"
    /\ UNCHANGED <<mode, obj, account, doc, record_seq, prog>>

\* the positions file of to_csv
WritePositionsCsv ==
    /\ mode = "csv"
    /\ op = "none"
    /\ \A i \in 1..Len(record_seq) : record_seq[i] \in PosRecords
    /\ out' = CsvContent(record_seq)
    /\ op' = "csv_positions"
    /\ UNCHANGED <<mode, obj, account, doc, record_seq, prog>>

NextCsv == WriteTransactionsCsv \/ WritePositionsCsv

SpecCsv == InitCsv /\ [][NextCsv]_vars

----------------------------------------------------------------------------
\* Paths and the file system

\* A path is <<stem, suffix>>; NoPath stands for None (no path given).
NoPath == <<"", "">>

\* Path.with_suffix(suffix): the last suffix is replaced; '.positions.csv'
\* gives a name whose stem ends in '.positions' and whose suffix is '.csv'.
WithSuffix(p, suffix) ==
    IF suffix = ".positions.csv" THEN <<p[1] \o ".positions", ".csv">>
    ELSE <<p[1], suffix>>

InputPaths == {<<"a", ".qfx">>, <<"b", ".qfx">>, <<"a", ".csv">>}

\* The values of -o / output_file: none, or one path.
OutputArgs == {NoPath, <<"out", ".csv">>}

MainOutputs ==
    {WithSuffix(p, s) : p \in InputPaths, s \in {".csv", ".json"}}
        \cup (OutputArgs \ {NoPath})

Paths ==
    InputPaths \cup MainOutputs
        \cup {WithSuffix(o, ".positions.csv") : o \in MainOutputs}

AbsentEntry == <<"absent">>
DirEntry == <<"dir">>
File(content) == <<"file", content>>

\* Path.exists(), Path.is_dir()
Exists(f, p) == f[p][1] # "absent"
IsDir(f, p) == f[p][1] = "dir"

\* open(path, 'w') followed by the writes and the close
WriteFile(f, path, content) == [f EXCEPT ![path] = File(content)]

----------------------------------------------------------------------------
\* Input files

InvStatement(t, p) ==
    [account |-> InvAccount, transactions |-> t, has_positions |-> "list", positions |-> p]
BankStatement(t) ==
    [account |-> BankAccount, transactions |-> t, has_positions |-> "absent", positions |-> <<>>]

\* one investment statement with a transaction and a position
DocTrxPos == <<InvStatement(<<InvTrx>>, <<SecPos>>)>>
\* two statements without any transaction, the second with a position
DocNoTrx == <<BankStatement(<<>>), InvStatement(<<>>, <<SecPos>>)>>
\* one bank statement with two transactions
DocTrxNoPos == <<BankStatement(<<BankTrx, InvTrx>>)>>
\* no statement at all
DocEmpty == <<>>
\* one investment statement with a transaction and a position whose
\* flattening raises
DocBadPos == <<InvStatement(<<InvTrx>>, <<NanPos>>)>>
\* a statement without transactions, then one with a transaction and an
\* empty positions list
DocTwo == <<BankStatement(<<>>), InvStatement(<<BankTrx>>, <<>>)>>

Ofx(d) == <<"ofx", d>>
Garbage == <<"garbage">>

\* The file systems the program may start in: a.qfx and b.qfx are missing,
\* directories, unparsable or OFX files; a.csv is missing or an OFX file;
\* a.positions.csv is missing or a directory; nothing else exists.
FsWith(a, b, c, d) ==
    [p \in Paths |->
        IF p = <<"a", ".qfx">> THEN a
        ELSE IF p = <<"b", ".qfx">> THEN b
        ELSE IF p = <<"a", ".csv">> THEN c
        ELSE IF p = <<"a.positions", ".csv">> THEN d
        ELSE AbsentEntry]

InitialFileSystems ==
    {FsWith(a, b, c, d) :
        a \in {AbsentEntry, DirEntry, File(Garbage), File(Ofx(DocTrxPos)), File(Ofx(DocNoTrx)),
               File(Ofx(DocTrxNoPos)), File(Ofx(DocEmpty)), File(Ofx(DocTwo)),
               File(Ofx(DocBadPos))},
        b \in {AbsentEntry, File(Garbage), File(Ofx(DocTrxPos)), File(Ofx(DocNoTrx))},
        c \in {AbsentEntry, File(Ofx(DocTrxNoPos))},
        d \in {AbsentEntry, DirEntry}}

----------------------------------------------------------------------------
\* QFXConverter

Return(p) == [kind |-> "return", exc |-> "", msg |-> "", path |-> p]
Raise(e, m) == [kind |-> "raise", exc |-> e, msg |-> m, path |-> NoPath]

NoConv == [input_file |-> NoPath, ofx_data |-> None, parsed |-> FALSE]

\* What a call leaves behind: the file system, the converter, what it
\* returned or raised, the paths it opened for writing and the number of
\* times it entered parse().
Outcome(f, c, r, w, n) == [fs |-> f, conv |-> c, result |-> r, wrote |-> w, parses |-> n]

\* The exception that left an extraction.
ErrorOf(records) == Raise("ValueError", records[1]["!raise"][2])

\* A variant of the constructor without the existence test.
ConstructNoCheck(f, input_file) ==
    Outcome(f, [input_file |-> input_file, ofx_data |-> None, parsed |-> FALSE],
            Return(NoPath), {}, 0)

\* QFXConverter.__init__
Construct(f, input_file) ==
    IF ~Exists(f, input_file)
    THEN Outcome(f, NoConv, Raise("FileNotFoundError", "Input file not found"), {}, 0)
    ELSE Outcome(f, [input_file |-> input_file, ofx_data |-> None, parsed |-> FALSE],
                 Return(NoPath), {}, 0)

\* A variant of parse that lets the parser's own exception through.
ParseUnwrapped(self, f) ==
    LET e == f[self.input_file] IN
    IF e[1] = "file" /\ e[2][1] = "ofx"
    THEN Outcome(f, [self EXCEPT !.ofx_data = e[2], !.parsed = TRUE], Return(NoPath), {}, 1)
    ELSE Outcome(f, self, Raise("ParseError", ""), {}, 1)

\* QFXConverter.parse: any failure to read, decode or parse becomes a
\* ValueError and leaves ofx_data and _parsed as they were.
Parse(self, f) ==
    LET e == f[self.input_file] IN
    IF e[1] = "file" /\ e[2][1] = "ofx"
    THEN Outcome(f, [self EXCEPT !.ofx_data = e[2], !.parsed = TRUE], Return(NoPath), {}, 1)
    ELSE Outcome(f, self, Raise("ValueError", "Failed to parse OFX file"), {}, 1)

\* A variant of the guard that parses on every extraction.
EnsureParsedAlways(self, f) == Parse(self, f)

\* if not self._parsed: self.parse()
EnsureParsed(self, f) ==
    IF ~self.parsed THEN Parse(self, f)
    ELSE Outcome(f, self, Return(NoPath), {}, 0)

\* A variant of to_csv that opens the output file before it looks at the
\* transactions.
ToCsvOpenFirst(self, f, output_arg) ==
    LET output_file == IF output_arg = NoPath THEN WithSuffix(self.input_file, ".csv")
                       ELSE output_arg
        p1 == EnsureParsed(self, f)
    IN IF p1.result.kind = "raise" THEN p1
       ELSE
        LET transactions == ExtractTransactions(p1.conv.ofx_data[2])
        IN IF Raised(transactions)
           THEN Outcome(f, p1.conv, ErrorOf(transactions), {}, p1.parses)
           ELSE IF IsDir(f, output_file)
           THEN Outcome(f, p1.conv, Raise("IsADirectoryError", ""), {}, p1.parses)
           ELSE IF transactions = <<>>
           THEN Outcome(WriteFile(f, output_file, <<"csv", [header |-> <<>>, rows |-> <<>>]>>),
                        p1.conv, Raise("ValueError", "No transactions found in OFX file"),
                        {output_file}, p1.parses)
           ELSE
            LET f1 == WriteFile(f, output_file, <<"csv", CsvContent(transactions)>>)
                positions == ExtractPositions(p1.conv.ofx_data[2])
                positions_file == WithSuffix(output_file, ".positions.csv")
            IN IF Raised(positions)
               THEN Outcome(f1, p1.conv, ErrorOf(positions), {output_file}, p1.parses)
               ELSE IF positions = <<>>
               THEN Outcome(f1, p1.conv, Return(output_file), {output_file}, p1.parses)
               ELSE IF IsDir(f1, positions_file)
               THEN Outcome(f1, p1.conv, Raise("IsADirectoryError", ""),
                            {output_file}, p1.parses)
               ELSE Outcome(WriteFile(f1, positions_file, <<"csv", CsvContent(positions)>>),
                            p1.conv, Return(output_file),
                            {output_file, positions_file}, p1.parses)

\* QFXConverter.to_csv
ToCsv(self, f, output_arg) ==
    LET output_file == IF output_arg = NoPath THEN WithSuffix(self.input_file, ".csv")
                       ELSE output_arg
        p1 == EnsureParsed(self, f)
    IN IF p1.result.kind = "raise" THEN p1
       ELSE
        LET transactions == ExtractTransactions(p1.conv.ofx_data[2])
        IN IF Raised(transactions)
           THEN Outcome(f, p1.conv, ErrorOf(transactions), {}, p1.parses)
           ELSE IF transactions = <<>>
           THEN Outcome(f, p1.conv, Raise("ValueError", "No transactions found in OFX file"),
                        {}, p1.parses)
           ELSE IF IsDir(f, output_file)
           THEN Outcome(f, p1.conv, Raise("IsADirectoryError", ""), {}, p1.parses)
           ELSE
            LET f1 == WriteFile(f, output_file, <<"csv", CsvContent(transactions)>>)
                positions == ExtractPositions(p1.conv.ofx_data[2])
                positions_file == WithSuffix(output_file, ".positions.csv")
            IN IF Raised(positions)
               THEN Outcome(f1, p1.conv, ErrorOf(positions), {output_file}, p1.parses)
               ELSE IF positions = <<>>
               THEN Outcome(f1, p1.conv, Return(output_file), {output_file}, p1.parses)
               ELSE IF IsDir(f1, positions_file)
               THEN Outcome(f1, p1.conv, Raise("IsADirectoryError", ""),
                            {output_file}, p1.parses)
               ELSE Outcome(WriteFile(f1, positions_file, <<"csv", CsvContent(positions)>>),
                            p1.conv, Return(output_file),
                            {output_file, positions_file}, p1.parses)

\* A variant that sets 'positions' even when there are none.
JsonDataAlways(transactions, positions) ==
    [k \in {"transactions", "positions"} |->
        IF k = "transactions" THEN transactions ELSE positions]

\* data of to_json: 'positions' is set only when there are positions
JsonData(transactions, positions) ==
    IF positions # <<>>
    THEN [k \in {"transactions", "positions"} |->
            IF k = "transactions" THEN transactions ELSE positions]
    ELSE [k \in {"transactions"} |-> transactions]

\* json.dump(data, jsonfile, indent=indent if indent > 0 else None)
JsonContent(data, indent) ==
    <<"json", data, IF indent > 0 THEN <<"int", indent>> ELSE None>>

\* QFXConverter.to_json
ToJson(self, f, output_arg, indent) ==
    LET output_file == IF output_arg = NoPath THEN WithSuffix(self.input_file, ".json")
                       ELSE output_arg
        p1 == EnsureParsed(self, f)
    IN IF p1.result.kind = "raise" THEN p1
       ELSE
        LET transactions == ExtractTransactions(p1.conv.ofx_data[2])
        IN IF Raised(transactions)
           THEN Outcome(f, p1.conv, ErrorOf(transactions), {}, p1.parses)
           ELSE IF transactions = <<>>
           THEN Outcome(f, p1.conv, Raise("ValueError", "No transactions found in OFX file"),
                        {}, p1.parses)
           ELSE
            LET positions == ExtractPositions(p1.conv.ofx_data[2])
                data == JsonData(transactions, positions)
            IN IF Raised(positions)
               THEN Outcome(f, p1.conv, ErrorOf(positions), {}, p1.parses)
               ELSE IF IsDir(f, output_file)
               THEN Outcome(f, p1.conv, Raise("IsADirectoryError", ""), {}, p1.parses)
               ELSE Outcome(WriteFile(f, output_file, JsonContent(data, indent)),
                            p1.conv, Return(output_file), {output_file}, p1.parses)

\* str.lower() on the format names the callers pass
Lower(s) ==
    IF s \in {"csv", "CSV"} THEN "csv"
    ELSE IF s \in {"json", "JSON"} THEN "json"
    ELSE s

\* A variant of convert_qfx that compares the format name as it was given.
ConvertQfxCaseSensitive(f, input_file, output_format, output_arg) ==
    LET c == Construct(f, input_file) IN
    IF c.result.kind = "raise" THEN c
    ELSE IF output_format = "csv" THEN ToCsv(c.conv, f, output_arg)
    ELSE IF output_format = "json" THEN ToJson(c.conv, f, output_arg, 2)
    ELSE Outcome(f, c.conv, Raise("ValueError", "Unsupported output format"), {}, 0)

\* convert_qfx
ConvertQfx(f, input_file, output_format, output_arg) ==
    LET c == Construct(f, input_file) IN
    IF c.result.kind = "raise" THEN c
    ELSE IF Lower(output_format) = "csv" THEN ToCsv(c.conv, f, output_arg)
    ELSE IF Lower(output_format) = "json" THEN ToJson(c.conv, f, output_arg, 2)
    ELSE Outcome(f, c.conv, Raise("ValueError", "Unsupported output format"), {}, 0)

----------------------------------------------------------------------------
\* Command line driver: main()

MaxFiles == 2
MaxCalls == 3

\* The command lines: one or more input files, --csv / --json (--compact
\* matters for JSON only), and -o when given.  -q only silences prints.
ArgSets ==
    {[input_files |-> i, format |-> fc[1], compact |-> fc[2], output |-> o] :
        i \in SeqsUpTo(InputPaths, MaxFiles) \ {<<>>},
        fc \in {<<"csv", FALSE>>, <<"json", FALSE>>, <<"json", TRUE>>},
        o \in OutputArgs}

NoArgs == [input_files |-> <<>>, format |-> "csv", compact |-> FALSE, output |-> NoPath]

\* A variant that rejects -o whatever the number of input files.
RejectsOutputAnyCount(a) == a.output # NoPath /\ Len(a.input_files) >= 1

\* if args.output and len(args.input_files) > 1
RejectsOutput(a) == a.output # NoPath /\ Len(a.input_files) > 1

\* A variant that returns the number of errors.
ExitCodeCount(errors) == errors

\* return 0 if error_count == 0 else 1
ExitCode(errors) == IF errors = 0 THEN 0 ELSE 1

\* What one call, or one pass of the loop of main(), did, started in file
\* system f: the kind of entry the input path was, the call's result, the
\* document the converter holds afterwards, the paths it opened for writing
\* with what they hold afterwards, and the paths whose entry differs.
CallRecord(o, file, f, status, r) ==
    [op |-> o, file |-> file, entry |-> f[file][1], status |-> status,
     result |-> r.result, ofx_data |-> r.conv.ofx_data,
     wrote |-> r.wrote, parses |-> r.parses,
     files |-> {<<p, r.fs[p]>> : p \in r.wrote},
     changed |-> {p \in Paths : r.fs[p] # f[p]}]

\* The body of the for loop of main() for input_file: the status is what
\* main() prints and counts.
ProcessFile(f, a, input_file) ==
    IF ~Exists(f, input_file)
    THEN [status |-> "not_found", constructed |-> FALSE,
          call |-> Outcome(f, NoConv, Return(NoPath), {}, 0)]
    ELSE IF IsDir(f, input_file)
    THEN [status |-> "skipped", constructed |-> FALSE,
          call |-> Outcome(f, NoConv, Return(NoPath), {}, 0)]
    ELSE
        LET c == Construct(f, input_file)
            r == IF c.result.kind = "raise" THEN c
                 ELSE IF a.format = "json"
                 THEN ToJson(c.conv, f, a.output, IF a.compact THEN 0 ELSE 2)
                 ELSE ToCsv(c.conv, f, a.output)
        IN [status |-> IF r.result.kind = "return" THEN "success"
                       ELSE IF r.result.exc \in {"FileNotFoundError", "ValueError"} THEN "error"
                       ELSE "unexpected",
            constructed |-> TRUE,
            call |-> r]

MainReject ==
    /\ mode = "cli" /\ pc = "main"
    /\ RejectsOutput(args)
    /\ exit_code' = 1
    /\ pc' = "done"
    /\ UNCHANGED <<pure, fs0, fs, args, idx, success_count, error_count, conv, calls>>

MainBegin ==
    /\ mode = "cli" /\ pc = "main"
    /\ ~RejectsOutput(args)
    /\ success_count' = 0
    /\ error_count' = 0
    /\ idx' = 1
    /\ pc' = "loop"
    /\ UNCHANGED <<pure, fs0, fs, args, exit_code, conv, calls>>

\* A variant of the loop body that leaves the loop at the first failure.
MainFileStopOnError ==
    /\ mode = "cli" /\ pc = "loop"
    /\ idx <= Len(args.input_files)
    /\ LET input_file == args.input_files[idx]
           r == ProcessFile(fs, args, input_file)
       IN /\ fs' = r.call.fs
          /\ success_count' = IF r.status = "success" THEN success_count + 1 ELSE success_count
          /\ error_count' = IF r.status \in {"not_found", "error", "unexpected"}
                            THEN error_count + 1 ELSE error_count
          /\ calls' = Append(calls, [CallRecord("main", input_file, fs, r.status, r.call)
                                     EXCEPT !.op = IF r.constructed THEN "main_convert"
                                                   ELSE "main"])
          /\ idx' = IF r.status \in {"not_found", "error", "unexpected"}
                    THEN Len(args.input_files) + 1 ELSE idx + 1
    /\ UNCHANGED <<pure, fs0, args, pc, exit_code, conv>>

\* A variant of the loop body that counts a skipped directory as an error.
MainFileCountsSkipped ==
    /\ mode = "cli" /\ pc = "loop"
    /\ idx <= Len(args.input_files)
    /\ LET input_file == args.input_files[idx]
           r == ProcessFile(fs, args, input_file)
       IN /\ fs' = r.call.fs
          /\ success_count' = IF r.status = "success" THEN success_count + 1 ELSE success_count
          /\ error_count' = IF r.status \in {"not_found", "error", "unexpected", "skipped"}
                            THEN error_count + 1 ELSE error_count
          /\ calls' = Append(calls, [CallRecord("main", input_file, fs, r.status, r.call)
                                     EXCEPT !.op = IF r.constructed THEN "main_convert"
                                                   ELSE "main"])
    /\ idx' = idx + 1
    /\ UNCHANGED <<pure, fs0, args, pc, exit_code, conv>>

\* One pass of the for loop of main().
MainFile ==
    /\ mode = "cli" /\ pc = "loop"
    /\ idx <= Len(args.input_files)
    /\ LET input_file == args.input_files[idx]
           r == ProcessFile(fs, args, input_file)
       IN /\ fs' = r.call.fs
          /\ success_count' = IF r.status = "success" THEN success_count + 1 ELSE success_count
          /\ error_count' = IF r.status \in {"not_found", "error", "unexpected"}
                            THEN error_count + 1 ELSE error_count
          /\ calls' = Append(calls, [CallRecord("main", input_file, fs, r.status, r.call)
                                     EXCEPT !.op = IF r.constructed THEN "main_convert"
                                                   ELSE "main"])
    /\ idx' = idx + 1
    /\ UNCHANGED <<pure, fs0, args, pc, exit_code, conv>>

MainReturn ==
    /\ mode = "cli" /\ pc = "loop"
    /\ idx > Len(args.input_files)
    /\ exit_code' = ExitCode(error_count)
    /\ pc' = "done"
    /\ UNCHANGED <<pure, fs0, fs, args, idx, success_count, error_count, conv, calls>>

----------------------------------------------------------------------------
\* A program that uses the package directly: it calls convert_qfx once, or
\* builds one QFXConverter and calls its methods, catching what they raise.

StatusOf(r) == IF r.result.kind = "return" THEN "returned" ELSE "raised"

ApiConvertQfx(input_file, output_format, output_arg) ==
    /\ mode = "api" /\ pc = "api"
    /\ LET r == ConvertQfx(fs, input_file, output_format, output_arg)
       IN /\ fs' = r.fs
          /\ calls' = Append(calls, CallRecord("convert_qfx:" \o output_format, input_file,
                                               fs, StatusOf(r), r))
    /\ pc' = "done"
    /\ UNCHANGED <<pure, fs0, args, idx, success_count, error_count, exit_code, conv>>

ApiConstruct(input_file) ==
    /\ mode = "api" /\ pc = "api"
    /\ LET r == Construct(fs, input_file)
       IN /\ conv' = r.conv
          /\ pc' = IF r.result.kind = "return" THEN "conv" ELSE "done"
          /\ calls' = Append(calls, CallRecord("construct", input_file,
                                               fs, StatusOf(r), r))
    /\ UNCHANGED <<pure, fs0, fs, args, idx, success_count, error_count, exit_code>>

ApiParse ==
    /\ mode = "api" /\ pc = "conv"
    /\ Len(calls) < MaxCalls
    /\ LET r == Parse(conv, fs)
       IN /\ conv' = r.conv
          /\ calls' = Append(calls, CallRecord("parse", conv.input_file,
                                               fs, StatusOf(r), r))
    /\ UNCHANGED <<pure, fs0, fs, args, pc, idx, success_count, error_count, exit_code>>

ApiToCsv(output_arg) ==
    /\ mode = "api" /\ pc = "conv"
    /\ Len(calls) < MaxCalls
    /\ LET r == ToCsv(conv, fs, output_arg)
       IN /\ conv' = r.conv
          /\ fs' = r.fs
          /\ calls' = Append(calls, CallRecord("to_csv", conv.input_file,
                                               fs, StatusOf(r), r))
    /\ UNCHANGED <<pure, fs0, args, pc, idx, success_count, error_count, exit_code>>

ApiToJson(output_arg) ==
    /\ mode = "api" /\ pc = "conv"
    /\ Len(calls) < MaxCalls
    /\ LET r == ToJson(conv, fs, output_arg, 2)
       IN /\ conv' = r.conv
          /\ fs' = r.fs
          /\ calls' = Append(calls, CallRecord("to_json", conv.input_file,
                                               fs, StatusOf(r), r))
    /\ UNCHANGED <<pure, fs0, args, pc, idx, success_count, error_count, exit_code>>

----------------------------------------------------------------------------
\* The program: started from the command line or used as a library.

Init ==
    /\ mode \in {"cli", "api"}
    /\ obj = NoObject
    /\ account = NoAccount
    /\ doc = NoDoc
    /\ record_seq = <<>>
    /\ out = <<>>
    /\ op = "none"
    /\ fs0 \in InitialFileSystems
    /\ fs = fs0
    /\ args \in IF mode = "cli" THEN ArgSets ELSE {NoArgs}
    /\ pc = IF mode = "cli" THEN "main" ELSE "api"
    /\ idx = 0
    /\ success_count = 0
    /\ error_count = 0
    /\ exit_code = -1
    /\ conv = NoConv
    /\ calls = <<>>

Next ==
    \/ MainReject
    \/ MainBegin
    \/ MainFile
    \/ MainReturn
    \/ \E p \in InputPaths, fmt \in {"csv", "JSON", "xml"}, o \in OutputArgs :
          ApiConvertQfx(p, fmt, o)
    \/ \E p \in InputPaths : ApiConstruct(p)
    \/ ApiParse
    \/ \E o \in OutputArgs : ApiToCsv(o)
    \/ \E o \in OutputArgs : ApiToJson(o)

Spec == Init /\ [][Next]_vars

----------------------------------------------------------------------------
\* Properties of the flattener

\* The account context the operation merged into out.
ContextOf(o) == IF o = "transaction" THEN TrxAccountInfo(account) ELSE PosAccountInfo(account)

\* A public, non-null, non-callable attribute of obj.
IsDataAttr(name) ==
    /\ obj[name] # Absent
    /\ ~IsPrivate(name)
    /\ obj[name] # None
    /\ obj[name][1] # "callable"

\* The flattener was called; it returned a record.
FlattenDone == mode = "flat" /\ op \in {"transaction", "position"}
Flattened == FlattenDone /\ ~IsFailure(out)

C10_NoNullField ==
    Flattened => \A k \in DOMAIN out : out[k] # None

\* The digit a one-character text stands for.
Digit(c) == CHOOSE d \in 0..9 : ToString(d) = c

RECURSIVE ToInt(_)
\* The number a text of decimal digits stands for.
ToInt(s) ==
    IF Len(s) = 0 THEN 0
    ELSE ToInt(SubSeq(s, 1, Len(s) - 1)) * 10 + Digit(SubSeq(s, Len(s), Len(s)))

\* The value an ISO-8601 text parses back to: 'YYYY-MM-DDTHH:MM:SS' is a
\* datetime, 'YYYY-MM-DD' a date, 'HH:MM:SS' a time.
FromIsoFormat(s) ==
    IF Len(s) = 19 /\ SubSeq(s, 11, 11) = "T"
    THEN <<"datetime", ToInt(SubSeq(s, 1, 4)), ToInt(SubSeq(s, 6, 7)), ToInt(SubSeq(s, 9, 10)),
           ToInt(SubSeq(s, 12, 13)), ToInt(SubSeq(s, 15, 16)), ToInt(SubSeq(s, 18, 19))>>
    ELSE IF Len(s) = 10 /\ SubSeq(s, 5, 5) = "-"
    THEN <<"date", ToInt(SubSeq(s, 1, 4)), ToInt(SubSeq(s, 6, 7)), ToInt(SubSeq(s, 9, 10))>>
    ELSE IF Len(s) = 8 /\ SubSeq(s, 3, 3) = ":"
    THEN <<"time", ToInt(SubSeq(s, 1, 2)), ToInt(SubSeq(s, 4, 5)), ToInt(SubSeq(s, 7, 8))>>
    ELSE <<"invalid">>

IsTemporal(v) == v[1] \in {"datetime", "date", "time"}

\* C11: every non-null temporal attribute of the object, date-only or
\* date+time, is in the record under its own name as an ISO-8601 text that
\* parses back to the same calendar/time value; none is dropped.
C11_TemporalAsIsoText ==
    Flattened =>
        \A name \in AttrNames :
            (IsDataAttr(name) /\ IsTemporal(obj[name])) =>
                /\ name \in DOMAIN out
                /\ out[name][1] = "str"
                /\ FromIsoFormat(out[name][2]) = obj[name]

\* What holds of the code: a datetime is in the record as its ISO-8601 text.
C11_DatetimeAsIsoText ==
    Flattened =>
        \A name \in AttrNames :
            (IsDataAttr(name) /\ obj[name][1] = "datetime") =>
                /\ name \in DOMAIN out
                /\ out[name][1] = "str"
                /\ FromIsoFormat(out[name][2]) = obj[name]

\* The fields attribute name of obj put into the record next to those of the
\* account context: what out holds under name unless the context holds the
\* same there, and the two derived fields.
Contributed(name) ==
    {k \in {name, UniqueIdKey(name), UniqueIdTypeKey(name)} \cap DOMAIN out :
        ~(k \in DOMAIN ContextOf(op) /\ out[k] = ContextOf(op)[k])}

\* The derived fields a composite value v under name is to contribute.
DerivedOf(name, v) ==
    {UniqueIdKey(name) : x \in {v[2]} \ {Absent}}
        \cup {UniqueIdTypeKey(name) : x \in {v[3]} \ {Absent}}

\* C13: a composite attribute contributes exactly the uniqueid / uniqueidtype
\* fields it exposes, with their values, and no field of its own name; any
\* other composite or unrecognised value contributes no field; and the
\* flattener never raises.
C13_CompositeNeverRaises ==
    FlattenDone =>
        /\ ~IsFailure(out)
        /\ \A name \in AttrNames :
             IsDataAttr(name) =>
                /\ obj[name][1] = "obj" =>
                        /\ Contributed(name) \ {name} = DerivedOf(name, obj[name])
                        /\ UniqueIdKey(name) \in DOMAIN out => out[UniqueIdKey(name)] = obj[name][2]
                        /\ UniqueIdTypeKey(name) \in DOMAIN out =>
                                out[UniqueIdTypeKey(name)] = obj[name][3]
                        /\ name \in DOMAIN out => out[name] # obj[name]
                /\ obj[name][1] \in {"opaque", "date", "time"} => Contributed(name) = {}

\* What holds of the code: the same whenever the flattener returns a record.
C13_CompositeFields ==
    Flattened =>
        \A name \in AttrNames :
             IsDataAttr(name) =>
                /\ obj[name][1] = "obj" =>
                        /\ Contributed(name) \ {name} = DerivedOf(name, obj[name])
                        /\ UniqueIdKey(name) \in DOMAIN out => out[UniqueIdKey(name)] = obj[name][2]
                        /\ UniqueIdTypeKey(name) \in DOMAIN out =>
                                out[UniqueIdTypeKey(name)] = obj[name][3]
                        /\ name \in DOMAIN out => out[name] # obj[name]
                /\ obj[name][1] \in {"opaque", "date", "time"} => Contributed(name) = {}

----------------------------------------------------------------------------
\* Properties of the aggregator

RECURSIVE TrxBefore(_, _)
\* The number of transactions in the statements before statement s.
TrxBefore(statements, s) ==
    IF s <= 1 THEN 0
    ELSE TrxBefore(statements, s - 1) + Len(statements[s - 1].transactions)

\* C2: the records returned by _extract_transactions are as many as the
\* transactions of all statements together, and the record at each position
\* is the flattening of the transaction at that position when statements are
\* taken in document order and transactions in source order; statements
\* without transactions contribute nothing and do not stop the walk.
C2_ExtractInOrder ==
    (mode = "extract" /\ op = "extract_transactions") =>
        /\ Len(out) = TrxBefore(doc, Len(doc) + 1)
        /\ \A s \in 1..Len(doc) :
             \A j \in 1..Len(doc[s].transactions) :
                out[TrxBefore(doc, s) + j] =
                    TransactionToDict(doc[s].transactions[j],
                                      TrxAccountInfo(doc[s].account))

C2_Witness ==
    /\ mode = "extract" /\ op = "extract_transactions"
    /\ Len(doc) = 2
    /\ doc[1].transactions = <<>>
    /\ doc[2].transactions = <<InvTrx, BankTrx>>
    /\ doc[2].account = BankAccount
    /\ Len(out) = 2
    /\ "secid_uniqueid" \in DOMAIN out[1]
    /\ out[2]["fitid"] = Str("x")

----------------------------------------------------------------------------
\* Properties of the CSV writer

CsvWritten == mode = "csv" /\ op \in {"csv_transactions", "csv_positions"}

\* The position of key k in the header, 0 when it is not there.
HeaderIndex(k) ==
    IF \E i \in 1..Len(out.header) : out.header[i] = k
    THEN CHOOSE i \in 1..Len(out.header) : out.header[i] = k
    ELSE 0

\* The header of file content c is the sorted union of the keys of the
\* records recs, and c has one row per record, as wide as the header.
CsvShape(c, recs) ==
    /\ {c.header[i] : i \in 1..Len(c.header)} = UNION {DOMAIN recs[n] : n \in 1..Len(recs)}
    /\ \A i, j \in 1..Len(c.header) :
            i < j => \E a, b \in 1..Len(KeyOrder) :
                        a < b /\ KeyOrder[a] = c.header[i] /\ KeyOrder[b] = c.header[j]
    /\ Len(c.rows) = Len(recs)
    /\ \A n \in 1..Len(c.rows) : Len(c.rows[n]) = Len(c.header)

\* C8 as stated: the header is the sorted union of the record keys, there is
\* one row per record, every field a record declares is a non-empty cell of
\* its row and every header field it does not declare is an empty cell.
C8_DeclaredNonEmpty ==
    CsvWritten =>
        LET recs == record_seq IN
        /\ CsvShape(out, recs)
        /\ \A n \in 1..Len(recs) :
             \A i \in 1..Len(out.header) :
                (out.header[i] \in DOMAIN recs[n]) <=> (out.rows[n][i] # EmptyCell)

\* C8 amended: every field a record declares appears in its row as the text
\* of its value, which is the empty cell exactly when the value is the empty
\* string or null; every header field the record does not declare is an
\* empty cell.
C8_CellIsValueText ==
    CsvWritten =>
        LET recs == record_seq IN
        /\ CsvShape(out, recs)
        /\ \A n \in 1..Len(recs) :
             \A i \in 1..Len(out.header) :
                LET k == out.header[i]
                    rec == recs[n]
                    cell == out.rows[n][i]
                IN /\ k \notin DOMAIN rec => cell = EmptyCell
                   /\ k \in DOMAIN rec =>
                        /\ (cell = EmptyCell) <=> (rec[k] \in {Str(""), None})
                        /\ rec[k][1] = "str" => cell = <<"text", rec[k][2]>>
                        /\ rec[k][1] \notin {"str", "none"} => cell = <<"repr", rec[k]>>

\* A bank record and an investment record, with different key sets and the
\* second with an empty account_type, written as two rows.
C8_Witness ==
    /\ CsvWritten
    /\ op = "csv_transactions"
    /\ Len(out.rows) = 2
    /\ DOMAIN record_seq[1] # DOMAIN record_seq[2]
    /\ record_seq[1]["account_type"] = Str("CHECKING")
    /\ record_seq[2]["account_type"] = Str("")
    /\ out.rows[1][HeaderIndex("account_type")] = <<"text", "CHECKING">>
    /\ out.rows[2][HeaderIndex("account_type")] = EmptyCell

----------------------------------------------------------------------------
\* Properties of the program

\* The number of transactions of all statements of document d.
TotalTrx(d) == TrxBefore(d, Len(d) + 1)

\* Document d yields at least one position record.
HasPositionRecords(d) ==
    \E s \in 1..Len(d) : d[s].has_positions = "list" /\ d[s].positions # <<>>

\* The calls that ran to_csv or to_json on a converter.
ConversionOps == {"to_csv", "to_json", "main_convert", "convert_qfx:csv", "convert_qfx:JSON"}

NoTransactionsError == Raise("ValueError", "No transactions found in OFX file")

\* C3: a conversion (to_csv or to_json) of a successfully parsed document
\* without any transaction raises the 'No transactions found' error and
\* opens, creates or changes no file, positions or not; a document with a
\* transaction in any statement does not raise it.
C3_NoTransactionsNoOutput ==
    \A i \in 1..Len(calls) :
        (calls[i].op \in ConversionOps /\ calls[i].ofx_data # None) =>
            /\ TotalTrx(calls[i].ofx_data[2]) = 0 =>
                    /\ calls[i].result = NoTransactionsError
                    /\ calls[i].wrote = {}
                    /\ calls[i].changed = {}
            /\ TotalTrx(calls[i].ofx_data[2]) > 0 =>
                    calls[i].result # NoTransactionsError

\* to_csv and then to_json on a document of two statements without any
\* transaction but with a position: both raise, nothing is written.
C3_Witness ==
    /\ mode = "api"
    /\ Len(calls) = 3
    /\ calls[2].op = "to_csv" /\ calls[3].op = "to_json"
    /\ calls[3].ofx_data = Ofx(DocNoTrx)
    /\ calls[2].result = NoTransactionsError
    /\ calls[3].result = NoTransactionsError
    /\ fs = fs0

\* The passes of main() that counted an error.
FailedCalls ==
    {i \in 1..Len(calls) : calls[i].status \in {"not_found", "error", "unexpected"}}

\* C4: for an input path that does not exist, the constructor and
\* convert_qfx raise FileNotFoundError, and main() reports the file as not
\* found and counts an error without constructing a converter; in each case
\* parse() is never entered and no file is written.
C4_NotFoundBeforeParse ==
    /\ \A i \in 1..Len(calls) :
         calls[i].entry = "absent" =>
            /\ calls[i].parses = 0
            /\ calls[i].wrote = {}
            /\ calls[i].changed = {}
            /\ calls[i].ofx_data = None
            /\ mode = "api" => /\ calls[i].result.kind = "raise"
                               /\ calls[i].result.exc = "FileNotFoundError"
            /\ mode = "cli" => /\ calls[i].status = "not_found"
                               /\ calls[i].op = "main"
    /\ mode = "cli" => error_count = Cardinality(FailedCalls)

\* main() met a missing file after it had converted another one.
C4_Witness ==
    /\ mode = "cli"
    /\ Len(calls) = 2
    /\ calls[1].status = "success"
    /\ calls[2].entry = "absent"
    /\ calls[2].status = "not_found"
    /\ error_count = 1

\* What main() did with one file: how it ended and what it wrote.
SameOutcome(c, alone) ==
    /\ c.status = alone.status
    /\ c.result = alone.call.result
    /\ c.wrote = alone.call.wrote
    /\ c.files = {<<p, alone.call.fs[p]>> : p \in alone.call.wrote}

MainDone == mode = "cli" /\ pc = "done" /\ ~RejectsOutput(args)

\* C5 as stated: every input file is handled, in argument order, whatever
\* happened to the files before it, and its outcome is the one it has when
\* it is the only input file.
C5_EachFileAsAlone ==
    MainDone =>
        /\ Len(calls) = Len(args.input_files)
        /\ \A i \in 1..Len(calls) :
             /\ calls[i].file = args.input_files[i]
             /\ SameOutcome(calls[i], ProcessFile(fs0, args, args.input_files[i]))

\* The paths the files before the i-th one wrote.
WrittenBefore(i) == UNION {calls[j].wrote : j \in 1..(i - 1)}

\* C5 amended: every input file is handled, in argument order, whatever
\* happened to the files before it; its outcome is the one it has when it
\* is the only input file unless the conversion of an earlier input file
\* wrote an output file at its path.
C5_EachFileAsAloneUnlessOverwritten ==
    MainDone =>
        /\ Len(calls) = Len(args.input_files)
        /\ \A i \in 1..Len(calls) :
             /\ calls[i].file = args.input_files[i]
             /\ args.input_files[i] \notin WrittenBefore(i) =>
                    SameOutcome(calls[i], ProcessFile(fs0, args, args.input_files[i]))

\* A file that cannot be parsed, then a file that converts.
C5_Witness ==
    /\ MainDone
    /\ Len(calls) = 2
    /\ calls[1].status = "error"
    /\ calls[1].result.msg = "Failed to parse OFX file"
    /\ calls[2].status = "success"
    /\ calls[2].file # calls[1].file

\* C6: main() returns 1 exactly when at least one input file was not found
\* or raised an error during conversion, and 0 otherwise.
C6_ExitCode ==
    MainDone =>
        /\ Len(calls) = Len(args.input_files)
        /\ exit_code = IF FailedCalls # {} THEN 1 ELSE 0

\* Two files failed.
C6_Witness ==
    /\ MainDone
    /\ Len(calls) = 2
    /\ calls[1].status = "not_found"
    /\ calls[2].status = "error"
    /\ exit_code = 1

\* C7: with -o and more than one input file main() returns 1 before it
\* looks at any file, and nothing is written; with -o and one input file the
\* file is converted and a successful conversion writes to that path.
C7_OutputWithManyInputsRejected ==
    (mode = "cli" /\ pc = "done" /\ args.output # NoPath) =>
        /\ Len(args.input_files) > 1 =>
                /\ exit_code = 1
                /\ calls = <<>>
                /\ fs = fs0
        /\ Len(args.input_files) = 1 =>
                /\ Len(calls) = 1
                /\ calls[1].file = args.input_files[1]
                /\ fs0[calls[1].file][1] = "file" => calls[1].op = "main_convert"
                /\ calls[1].status = "success" =>
                        /\ calls[1].result = Return(args.output)
                        /\ args.output \in calls[1].wrote
                        /\ fs[args.output][1] = "file"
                        /\ fs[args.output][2][1] = args.format
                        /\ calls[1].changed \subseteq
                                {args.output, WithSuffix(args.output, ".positions.csv")}

\* Two convertible files given with -o.
C7_Witness ==
    /\ mode = "cli" /\ pc = "done"
    /\ args.output # NoPath
    /\ Len(args.input_files) = 2
    /\ fs0[args.input_files[1]] = File(Ofx(DocTrxPos))
    /\ fs0[args.input_files[2]] = File(Ofx(DocTrxPos))
    /\ exit_code = 1

UnsupportedFormatError == Raise("ValueError", "Unsupported output format")

\* A converter as the constructor leaves it.
Fresh(input_file) == [input_file |-> input_file, ofx_data |-> None, parsed |-> FALSE]

\* Call c ended as outcome r says.
EndedAs(c, r) == c.result = r.result /\ c.wrote = r.wrote /\ c.parses = r.parses

\* C12: convert_qfx on an existing input path with a format that is neither
\* 'csv' nor 'json' in any letter case raises 'Unsupported output format',
\* never enters parse() and creates or changes no file; with 'csv' or 'JSON'
\* it does what to_csv / to_json of a fresh converter does, and a call that
\* returns gives the path of the output file it wrote in that format.
C12_ConvertQfxDispatch ==
    \A i \in 1..Len(calls) :
        (calls[i].op \in {"convert_qfx:csv", "convert_qfx:JSON", "convert_qfx:xml"}
            /\ calls[i].entry # "absent") =>
            /\ calls[i].op = "convert_qfx:xml" =>
                    /\ calls[i].result = UnsupportedFormatError
                    /\ calls[i].parses = 0
                    /\ calls[i].ofx_data = None
                    /\ calls[i].wrote = {}
                    /\ calls[i].changed = {}
                    /\ fs = fs0
            /\ calls[i].op = "convert_qfx:csv" =>
                    /\ calls[i].result # UnsupportedFormatError
                    /\ \E o \in OutputArgs :
                          /\ EndedAs(calls[i], ToCsv(Fresh(calls[i].file), fs0, o))
                          /\ fs = ToCsv(Fresh(calls[i].file), fs0, o).fs
                    /\ calls[i].result.kind = "return" =>
                          /\ calls[i].result.path \in calls[i].wrote
                          /\ fs[calls[i].result.path][2][1] = "csv"
            /\ calls[i].op = "convert_qfx:JSON" =>
                    /\ calls[i].result # UnsupportedFormatError
                    /\ \E o \in OutputArgs :
                          /\ EndedAs(calls[i], ToJson(Fresh(calls[i].file), fs0, o, 2))
                          /\ fs = ToJson(Fresh(calls[i].file), fs0, o, 2).fs
                    /\ calls[i].result.kind = "return" =>
                          /\ calls[i].result.path \in calls[i].wrote
                          /\ fs[calls[i].result.path][2][1] = "json"

\* convert_qfx with format 'xml' on a file that to_csv would convert.
C12_Witness ==
    /\ mode = "api"
    /\ Len(calls) = 1
    /\ calls[1].op = "convert_qfx:xml"
    /\ fs0[calls[1].file] = File(Ofx(DocTrxPos))
    /\ calls[1].result = UnsupportedFormatError
    /\ calls[1].changed = {}

\* The content of path p in file system f is an OFX document the parser takes.
Parseable(f, p) == f[p][1] = "file" /\ f[p][2][1] = "ofx"

FailedToParse == Raise("ValueError", "Failed to parse OFX file")

\* The calls that enter parse() on a converter that is not parsed.
ParsingOps == ConversionOps \cup {"parse"}

\* The step is a call on a converter that has not parsed yet.
CallOnUnparsed ==
    /\ Len(calls') = Len(calls) + 1
    /\ calls'[Len(calls')].op \in ParsingOps
    /\ calls'[Len(calls')].entry # "absent"
    /\ pc = "conv" => ~conv.parsed

\* C14: when a call on a converter that has not parsed finds input that
\* cannot be read or parsed, it raises ValueError 'Failed to parse OFX file'
\* after entering parse() once; the converter is left not parsed with
\* ofx_data unset and no file is written or changed, so the next call
\* enters parse() again.  No call raises that error for input the parser
\* takes.
C14_ParseFailureLeavesUnparsed ==
    [][CallOnUnparsed =>
        LET c == calls'[Len(calls')] IN
        /\ ~Parseable(fs, c.file) =>
                /\ c.result = FailedToParse
                /\ c.parses = 1
                /\ c.ofx_data = None
                /\ c.wrote = {}
                /\ c.changed = {}
                /\ fs' = fs
                /\ pc = "conv" => (conv' = conv /\ ~conv'.parsed /\ conv'.ofx_data = None)
                /\ mode = "cli" => (c.status = "error" /\ error_count' = error_count + 1)
        /\ Parseable(fs, c.file) =>
                /\ c.result # FailedToParse
                /\ c.parses = 1
                /\ c.ofx_data = fs[c.file][2]
    ]_vars

\* to_csv and then to_json on a file that is not OFX: each call entered
\* parse() and failed, and nothing was written.
C14_Witness ==
    /\ mode = "api"
    /\ Len(calls) = 3
    /\ fs0[conv.input_file] = File(Garbage)
    /\ calls[2].op = "to_csv" /\ calls[3].op = "to_json"
    /\ calls[2].result = FailedToParse /\ calls[3].result = FailedToParse
    /\ calls[2].parses = 1 /\ calls[3].parses = 1
    /\ ~conv.parsed /\ conv.ofx_data = None
    /\ fs = fs0

FloatFailed == Raise("ValueError", FloatError[2])

\* What a call raises when it fails inside _extract_transactions or
\* _extract_positions: parse() failed or the flattening of a record raised.
ExtractionErrors == {FailedToParse, FloatFailed}

\* The calls that ran to_json.
IsJsonCall(c) ==
    \/ c.op \in {"to_json", "convert_qfx:JSON"}
    \/ c.op = "main_convert" /\ args.format = "json"

\* C15: a conversion call (to_csv or to_json) that raises during extraction
\* has created or changed no output file.
C15_NoOutputWhenExtractionRaises ==
    \A i \in 1..Len(calls) :
        (calls[i].op \in ConversionOps /\ calls[i].result \in ExtractionErrors) =>
            /\ calls[i].wrote = {}
            /\ calls[i].changed = {}

\* What holds of the code: to_json that raises, whatever the reason, has
\* created or changed no file; to_csv that raises before its transactions
\* are extracted has not either.
C15_JsonNoOutputWhenRaises ==
    \A i \in 1..Len(calls) :
        (calls[i].op \in ConversionOps /\ calls[i].result.kind = "raise") =>
            /\ IsJsonCall(calls[i]) => (calls[i].wrote = {} /\ calls[i].changed = {})
            /\ calls[i].result \in {FailedToParse, NoTransactionsError} =>
                    (calls[i].wrote = {} /\ calls[i].changed = {})

\* The step is a to_csv or to_json call on the converter of the program.
MethodCall ==
    /\ mode = "api" /\ pc = "conv"
    /\ Len(calls') = Len(calls) + 1
    /\ calls'[Len(calls')].op \in {"to_csv", "to_json"}

\* C16: a converter that is parsed holds parsed data; to_csv and to_json
\* enter parse() exactly when the converter is not parsed; on a parsed
\* converter they leave the converter as it is and work on the data it
\* holds, whatever the input file holds by then, so every such call has the
\* same record sequences before it.
C16_LazyParse ==
    [][/\ conv.parsed => conv.ofx_data # None
       /\ conv'.parsed => conv'.ofx_data # None
       /\ MethodCall =>
            LET c == calls'[Len(calls')] IN
            /\ c.parses = IF conv.parsed THEN 0 ELSE 1
            /\ conv.parsed =>
                    /\ conv' = conv
                    /\ c.ofx_data = conv.ofx_data
                    /\ c.result # FailedToParse
                    /\ (c.op = "to_json" /\ c.result.kind = "return") =>
                            fs'[c.result.path][2][2]["transactions"]
                                = ExtractTransactions(conv.ofx_data[2])
                    /\ (c.op = "to_csv" /\ c.result.kind = "return") =>
                            fs'[c.result.path][2][2]
                                = CsvContent(ExtractTransactions(conv.ofx_data[2]))
      ]_vars

\* to_csv of a converter on a.csv parsed it and overwrote it; to_json then
\* succeeded on the data held, without parsing.
C16_Witness ==
    /\ mode = "api"
    /\ Len(calls) = 3
    /\ conv.input_file = <<"a", ".csv">>
    /\ calls[2].op = "to_csv" /\ calls[2].result.kind = "return" /\ calls[2].parses = 1
    /\ calls[3].op = "to_json" /\ calls[3].result.kind = "return" /\ calls[3].parses = 0
    /\ ~Parseable(fs, conv.input_file)
    /\ conv.parsed

\* The passes of main() that ended in the given statuses.
CallsWith(statuses) == {i \in 1..Len(calls) : calls[i].status \in statuses}

\* C17: while main() is in its loop and when it has left it, every input
\* path visited so far has one pass, which counted it as a success, as an
\* error, or, for a directory, in neither counter; so the counters add up
\* to the number of visited paths that are not directories, and a run over
\* directories alone returns 0 with both counters at 0.
C17_CounterAccounting ==
    (mode = "cli" /\ pc \in {"loop", "done"} /\ ~RejectsOutput(args)) =>
        /\ Len(calls) = idx - 1
        /\ pc = "done" => Len(calls) = Len(args.input_files)
        /\ \A i \in 1..Len(calls) :
             /\ calls[i].file = args.input_files[i]
             /\ calls[i].status \in {"success", "not_found", "error", "unexpected", "skipped"}
             /\ (calls[i].status = "skipped") <=> IsDir(fs0, calls[i].file)
             /\ (calls[i].status = "skipped") <=> (calls[i].entry = "dir")
        /\ success_count = Cardinality(CallsWith({"success"}))
        /\ error_count = Cardinality(CallsWith({"not_found", "error", "unexpected"}))
        /\ success_count + error_count
                = Cardinality({i \in 1..Len(calls) : ~IsDir(fs, args.input_files[i])})
        /\ (pc = "done" /\ \A i \in 1..Len(args.input_files) : IsDir(fs0, args.input_files[i])) =>
                /\ success_count = 0
                /\ error_count = 0
                /\ exit_code = 0

\* The same directory given twice: nothing is counted and main() returns 0.
C17_Witness ==
    /\ mode = "cli" /\ pc = "done"
    /\ Len(args.input_files) = 2
    /\ Len(calls) = 2
    /\ calls[1].status = "skipped" /\ calls[2].status = "skipped"
    /\ success_count = 0 /\ error_count = 0
    /\ exit_code = 0

\* C9: a successful to_json writes a document whose 'transactions' key holds
\* every transaction record and which has a 'positions' key exactly when
\* the document yields a position record; a successful to_csv writes the
\* '.positions.csv' file next to its output exactly then.
C9_PositionsOnlyWhenPresent ==
    \A i \in 1..Len(calls) :
        (calls[i].op \in ConversionOps /\ calls[i].result.kind = "return") =>
            LET d == calls[i].ofx_data[2]
                output_file == calls[i].result.path
                content == (CHOOSE pe \in calls[i].files : pe[1] = output_file)[2][2]
            IN /\ \E pe \in calls[i].files : pe[1] = output_file
               /\ content[1] = "json" =>
                    /\ "transactions" \in DOMAIN content[2]
                    /\ Len(content[2]["transactions"]) = TotalTrx(d)
                    /\ content[2]["transactions"] = ExtractTransactions(d)
                    /\ ("positions" \in DOMAIN content[2]) <=> HasPositionRecords(d)
                    /\ calls[i].wrote = {output_file}
               /\ content[1] = "csv" =>
                    /\ (WithSuffix(output_file, ".positions.csv") \in calls[i].wrote)
                            <=> HasPositionRecords(d)
                    /\ calls[i].wrote \subseteq
                            {output_file, WithSuffix(output_file, ".positions.csv")}

\* to_json on a document whose only positions list is empty, then to_csv.
C9_Witness ==
    /\ mode = "api"
    /\ Len(calls) = 3
    /\ calls[2].op = "to_json" /\ calls[3].op = "to_csv"
    /\ calls[2].result.kind = "return" /\ calls[3].result.kind = "return"
    /\ calls[2].ofx_data = Ofx(DocTwo)
    /\ fs[<<"a", ".json">>][1] = "file"
    /\ DOMAIN fs[<<"a", ".json">>][2][2] = {"transactions"}
    /\ fs[<<"a.positions", ".csv">>][1] # "file"

=============================================================================
